---------------------------- MODULE Spec2Model ----------------------------
(***************************************************************************)
(* FORD Score prediction engine (src/prediction.py, src/config.py).        *)
(*                                                                         *)
(* compute_prediction(inputs) is modelled statement group by statement     *)
(* group: each invocation has its own frame (the function's locals) and a  *)
(* position pc; the module-level tables RISK_LEVELS and SCORE_RATES are     *)
(* state shared by all invocations.                                        *)
(*                                                                         *)
(* Representation.  A Python value is a tagged record: Num(n) for a        *)
(* number, Str(s) for a string, NoneV for None.  Numbers are the integer   *)
(* valued floats; bmi is kept as the exact fraction num/den, so that       *)
(* bmi >= 40 is num >= 40 * den.  Percentages are kept in tenths of a      *)
(* percent (1.2 is 12, 44.8 is 448, the default 0.0 is 0).  The display    *)
(* string "condition" of a component is left out; labels are written in    *)
(* ASCII.                                                                  *)
(***************************************************************************)
EXTENDS Integers, Sequences, FiniteSets, TLC

\* ------------------------------------------------------------ bounds
\* Largest number of keys of an input record in the boundary sweep.
MaxKeys == 2
\* Number of invocations that may be in progress at once.
MaxCalls == 2

\* ------------------------------------------------------------ values
Num(n) == [kind |-> "num", num |-> n, str |-> ""]
Str(s) == [kind |-> "str", num |-> 0, str |-> s]
NoneV == [kind |-> "none", num |-> 0, str |-> ""]

\* The strings float() parses into a number; every other string is refused.
NumericStrings == {"80"}
ParseFloat(s) == CASE s = "80" -> 80 [] OTHER -> 0

\* float(v): the exception it raises ("" when it raises none).
FloatExc(v) ==
  CASE v.kind = "num" -> ""
    [] v.kind = "str" -> IF v.str \in NumericStrings THEN "" ELSE "ValueError"
    [] OTHER -> "TypeError"

\* float(v): its value, when it raises nothing.
Float(v) == IF v.kind = "str" THEN ParseFloat(v.str) ELSE v.num

\* inputs.get(key, default)
Get(inputs, key, default) ==
  IF key \in DOMAIN inputs THEN inputs[key] ELSE default

\* ------------------------------------------------------------ config.py
ConfigRiskLevels ==
  << [max_score |-> 1, label |-> "Low", color |-> "green", nonhome_rate |-> 12],
     [max_score |-> 3, label |-> "Low-Moderate", color |-> "orange", nonhome_rate |-> 31],
     [max_score |-> 6, label |-> "Moderate-High", color |-> "orange", nonhome_rate |-> 70],
     [max_score |-> 10, label |-> "High", color |-> "red", nonhome_rate |-> 264] >>

ConfigScoreRates ==
  (0 :> 7) @@ (1 :> 17) @@ (2 :> 28) @@ (3 :> 29) @@ (4 :> 39) @@ (5 :> 96)
  @@ (6 :> 93) @@ (7 :> 147) @@ (8 :> 180) @@ (9 :> 229) @@ (10 :> 448)

\* The keys an input record may carry: those compute_prediction reads, and
\* bmi, which the form of VARIABLES collects.
NumericFields == <<"age", "gcs", "sbp", "hr", "rr", "height_in", "weight_lb">>
CategoricalFields == {"sex", "fracture_site", "mechanism", "transport", "insurance"}
Fields ==
  {NumericFields[i] : i \in 1..Len(NumericFields)} \cup CategoricalFields \cup {"bmi"}

\* The options the form declares for a categorical field.
Options(key) ==
  CASE key = "sex" -> {"Male", "Female"}
    [] key = "fracture_site" -> {"Other", "Hip/Femur", "Axial (Spine/Rib/Pelvis)", "Both"}
    [] key = "mechanism" -> {"Fall", "MVC", "Assault", "Other"}
    [] key = "transport" -> {"Ambulance/Air", "Private Vehicle", "Walk-in", "Other"}
    [] key = "insurance" -> {"Self-pay", "Medicare", "Medicaid", "Private", "Charity", "Other"}
    [] OTHER -> {}

\* ------------------------------------------------------------ prediction.py
DefaultSex == "Male"
DefaultFractureSite == "Other"
DefaultMechanism == "Fall"
DefaultTransport == "Ambulance/Air"
DefaultInsuranceMedicare == "Medicare"
DefaultInsurance == "Self-pay"

\* The second argument of each inputs.get.
Default(key) ==
  CASE key = "age" -> Num(50)
    [] key = "sex" -> Str(DefaultSex)
    [] key = "gcs" -> Num(15)
    [] key = "sbp" -> Num(120)
    [] key = "hr" -> Num(75)
    [] key = "rr" -> Num(16)
    [] key = "height_in" -> Num(68)
    [] key = "weight_lb" -> Num(170)
    [] key = "fracture_site" -> Str(DefaultFractureSite)
    [] key = "mechanism" -> Str(DefaultMechanism)
    [] key = "transport" -> Str(DefaultTransport)
    [] key = "insurance" -> Str(DefaultInsurance)

\* The exception of the first float() that fails, in statement order.
RECURSIVE FirstFloatExc(_, _)
FirstFloatExc(inputs, i) ==
  IF i > Len(NumericFields) THEN ""
  ELSE LET e == FloatExc(Get(inputs, NumericFields[i], Default(NumericFields[i])))
       IN IF e # "" THEN e ELSE FirstFloatExc(inputs, i + 1)

\* What lines 25-37 raise: a failed float(), or the division by height_in ** 2.
NormalizeExc(inputs) ==
  LET e == FirstFloatExc(inputs, 1)
  IN IF e # "" THEN e
     ELSE IF Float(Get(inputs, "height_in", Default("height_in"))) = 0
          THEN "ZeroDivisionError"
          ELSE ""

\* bmi = (weight_lb / (height_in ** 2)) * 703, as an exact fraction.
Bmi(weight_lb, height_in) == [num |-> weight_lb * 703, den |-> height_in * height_in]

\* The locals bound by lines 25-37, when nothing is raised.
NormalizeRec(inputs) ==
  LET num(key) == Float(Get(inputs, key, Default(key)))
  IN [age |-> num("age"),
      sex |-> Get(inputs, "sex", Default("sex")),
      gcs |-> num("gcs"),
      sbp |-> num("sbp"),
      hr |-> num("hr"),
      rr |-> num("rr"),
      height_in |-> num("height_in"),
      weight_lb |-> num("weight_lb"),
      bmi |-> Bmi(num("weight_lb"), num("height_in")),
      fracture_site |-> Get(inputs, "fracture_site", Default("fracture_site")),
      mechanism |-> Get(inputs, "mechanism", Default("mechanism")),
      transport |-> Get(inputs, "transport", Default("transport")),
      insurance |-> Get(inputs, "insurance", Default("insurance"))]

\* The "met" expression of each component.
GcsSevere(gcs) == gcs <= 8
HipFemur(fracture_site) == fracture_site \in {Str("Hip/Femur"), Str("Both")}
RespRateLow(rr) == rr < 12
InsuranceIs(insurance, name) == insurance = Str(name)
SbpHypotensive(sbp) == sbp < 90
AgeOver75(age) == age >= 75
Axial(fracture_site) == fracture_site \in {Str("Axial (Spine/Rib/Pelvis)"), Str("Both")}
GcsModerateNoLowerBound(gcs) == gcs <= 12
GcsModerate(gcs) == 9 <= gcs /\ gcs <= 12
BmiClass3(bmi) == bmi.num >= 40 * bmi.den
Age65to74(age) == 65 <= age /\ age <= 74
Female(sex) == sex = Str("Female")
RespRateHigh(rr) == rr > 20
Tachycardic(hr) == hr >= 100
TransportIs(transport, name) == transport = Str(name)
MechanismAssault(mechanism) == mechanism = Str("Assault")

Comp(label, met, points) == [label |-> label, met |-> met, points |-> points, value |-> 0]

\* components = [...], lines 39-154; "value" is not yet set (0 stands for the
\* missing key).
Components(l) ==
  << Comp("GCS Severe (<= 8)", GcsSevere(l.gcs), 6),
     Comp("Hip/Femur Fracture", HipFemur(l.fracture_site), 5),
     Comp("Resp Rate Low (< 12)", RespRateLow(l.rr), 5),
     Comp("Insurance: Medicare", InsuranceIs(l.insurance, "Medicare"), 4),
     Comp("SBP Hypotensive (< 90)", SbpHypotensive(l.sbp), 4),
     Comp("Insurance: Other", InsuranceIs(l.insurance, "Other"), 4),
     Comp("Age >= 75", AgeOver75(l.age), 3),
     Comp("Axial Fracture (Spine/Rib/Pelvis)", Axial(l.fracture_site), 3),
     Comp("Insurance: Private", InsuranceIs(l.insurance, "Private"), 3),
     Comp("Insurance: Charity", InsuranceIs(l.insurance, "Charity"), 3),
     Comp("GCS Moderate (9-12)", GcsModerate(l.gcs), 3),
     Comp("BMI >= 40 (Class III Obesity)", BmiClass3(l.bmi), 2),
     Comp("Age 65-74", Age65to74(l.age), 1),
     Comp("Female", Female(l.sex), 1),
     Comp("Resp Rate High (> 20)", RespRateHigh(l.rr), 1),
     Comp("Heart Rate Tachycardic (>= 100)", Tachycardic(l.hr), 1),
     Comp("Transport: Private Vehicle", TransportIs(l.transport, "Private Vehicle"), -2),
     Comp("Mechanism: Assault", MechanismAssault(l.mechanism), -3),
     Comp("Transport: Walk-in", TransportIs(l.transport, "Walk-in"), -4) >>

\* for comp in components: comp["value"] = comp["points"] if comp["met"] else 0
WithValues(comps) ==
  [i \in DOMAIN comps |->
     [comps[i] EXCEPT !.value = IF comps[i].met THEN comps[i].points ELSE 0]]

Min(a, b) == IF a <= b THEN a ELSE b
Max(a, b) == IF a >= b THEN a ELSE b

\* A sum that saturates at every step instead of only at the end.
RECURSIVE SumSaturating(_, _)
SumSaturating(comps, n) ==
  IF n = 0 THEN 0
  ELSE Max(0, Min(10, SumSaturating(comps, n - 1) + comps[n].value))

\* sum(c["value"] for c in components): a left fold from 0.
RECURSIVE SumUpTo(_, _)
SumUpTo(comps, n) ==
  IF n = 0 THEN 0 ELSE SumUpTo(comps, n - 1) + comps[n].value

SumValuesSaturating(comps) == SumSaturating(comps, Len(comps))
SumValues(comps) == SumUpTo(comps, Len(comps))

\* max(0, min(10, raw_score))
ClampUpperOnly(raw) == Min(10, raw)
Clamp(raw) == Max(0, Min(10, raw))

\* SCORE_RATES.get(score, 0.0)
RateLookup(rates, s) == IF s \in DOMAIN rates THEN rates[s] ELSE 0

\* The loop of lines 164-172: the first level with score <= max_score, and
\* the values set before the loop when there is none.
RECURSIVE ScanStrict(_, _, _)
ScanStrict(levels, s, i) ==
  IF i > Len(levels)
  THEN [label |-> "", color |-> "green", nonhome_rate |-> 0]
  ELSE IF s < levels[i].max_score
       THEN [label |-> levels[i].label, color |-> levels[i].color,
             nonhome_rate |-> levels[i].nonhome_rate]
       ELSE ScanStrict(levels, s, i + 1)

RECURSIVE ScanFrom(_, _, _)
ScanFrom(levels, s, i) ==
  IF i > Len(levels)
  THEN [label |-> "", color |-> "green", nonhome_rate |-> 0]
  ELSE IF s <= levels[i].max_score
       THEN [label |-> levels[i].label, color |-> levels[i].color,
             nonhome_rate |-> levels[i].nonhome_rate]
       ELSE ScanFrom(levels, s, i + 1)

BandScanStrict(levels, s) == ScanStrict(levels, s, 1)
BandScan(levels, s) == ScanFrom(levels, s, 1)

\* The dict returned by lines 174-182.
ResultOf(sc, raw, pct, label, color, rate, comps) ==
  [score |-> sc, raw_score |-> raw, nonhome_pct |-> pct, risk_label |-> label,
   risk_color |-> color, risk_nonhome_pct |-> rate, components |-> comps]

\* compute_prediction(inputs) as one function of its argument and the two
\* tables, when lines 25-37 raise nothing.
ComputePrediction(inputs, levels, rates) ==
  LET comps == WithValues(Components(NormalizeRec(inputs)))
      raw == SumValues(comps)
      sc == Clamp(raw)
      band == BandScan(levels, sc)
  IN ResultOf(sc, raw, RateLookup(rates, sc), band.label, band.color,
              band.nonhome_rate, comps)

\* ------------------------------------------------------------ input records
EmptyRecord == [k \in {} |-> NoneV]

\* The values a key takes in the boundary sweep: both sides of every
\* threshold, values float() refuses, every declared option and values
\* outside the declared options.
FieldValues(key) ==
  CASE key = "age" -> {Num(64), Num(65), Num(74), Num(75), Str("80"), Str("abc"), NoneV}
    [] key = "gcs" -> {Num(8), Num(9), Num(12), Num(13), Str("abc")}
    [] key = "sbp" -> {Num(89), Num(90), Str("abc")}
    [] key = "hr" -> {Num(99), Num(100), Str("abc")}
    [] key = "rr" -> {Num(11), Num(12), Num(20), Num(21), Str("abc")}
    [] key = "height_in" -> {Num(0), Num(54), Num(55), Str("abc"), NoneV}
    [] key = "weight_lb" -> {Num(263), Num(264), Str("abc")}
    [] key = "bmi" -> {Num(39), Num(40), Num(45)}
    [] key \in {"sex", "insurance"} ->
         {Str(o) : o \in Options(key)} \cup {Str("Unknown"), NoneV}
    [] OTHER -> {Str(o) : o \in Options(key)} \cup {Str("Unknown")}

\* The value of a key that makes a rule fire.
HotValue(key) ==
  CASE key = "age" -> Num(75)
    [] key = "sex" -> Str("Female")
    [] key = "gcs" -> Num(6)
    [] key = "sbp" -> Num(80)
    [] key = "hr" -> Num(105)
    [] key = "rr" -> Num(10)
    [] key = "height_in" -> Num(54)
    [] key = "weight_lb" -> Num(300)
    [] key = "bmi" -> Num(45)
    [] key = "fracture_site" -> Str("Both")
    [] key = "mechanism" -> Str("Assault")
    [] key = "transport" -> Str("Walk-in")
    [] key = "insurance" -> Str("Medicare")

\* Every record with the keys K, each key at one of its sweep values.
RECURSIVE RecordsOn(_)
RecordsOn(K) ==
  IF K = {} THEN {EmptyRecord}
  ELSE LET k == CHOOSE x \in K : TRUE
       IN {(k :> v) @@ f : v \in FieldValues(k), f \in RecordsOn(K \ {k})}

SweepInputs ==
  UNION {RecordsOn(K) : K \in {S \in SUBSET Fields : Cardinality(S) <= MaxKeys}}

\* Every record whose keys are each at the value that makes a rule fire.
ComboInputs == {[k \in K |-> HotValue(k)] : K \in SUBSET Fields}

Inputs == SweepInputs \cup ComboInputs

\* The records of the runs with several invocations in progress, and of the
\* runs over edited tables: one record per score 0, 5, 6 and 10, one of them
\* with a negative sum, and one that float() refuses.
FewInputs ==
  { EmptyRecord,
    ("fracture_site" :> Str("Hip/Femur")),
    ("gcs" :> Num(6)),
    ("gcs" :> Num(6)) @@ ("fracture_site" :> Str("Hip/Femur")) @@ ("rr" :> Num(10))
      @@ ("sbp" :> Num(80)),
    ("transport" :> Str("Walk-in")) @@ ("mechanism" :> Str("Assault")),
    ("age" :> Str("abc")) }

\* config.py as it stands, and as an edit could leave it: a score without a
\* rate, a band table that stops short of 10.
RateVariants ==
  {ConfigScoreRates} \cup
  {[s \in (DOMAIN ConfigScoreRates) \ {k} |-> ConfigScoreRates[s]] : k \in {0, 5, 10}}
LevelVariants ==
  {ConfigRiskLevels, SubSeq(ConfigRiskLevels, 1, 3),
   [ConfigRiskLevels EXCEPT ![4].max_score = 9]}

\* ------------------------------------------------------------ state
VARIABLES
  RISK_LEVELS,      \* config.RISK_LEVELS
  SCORE_RATES,      \* config.SCORE_RATES
  pc,               \* per invocation: its position in compute_prediction
  inputs,           \* per invocation: the argument
  locals,           \* per invocation: age, sex, ..., insurance (lines 25-37)
  components,       \* per invocation: the list of component dicts
  raw_score, score, nonhome_pct,
  risk_label, risk_color, risk_nonhome_pct,
  exc,              \* per invocation: the exception raised ("" for none)
  result            \* per invocation: the dict returned

vars ==
  <<RISK_LEVELS, SCORE_RATES, pc, inputs, locals, components, raw_score, score,
    nonhome_pct, risk_label, risk_color, risk_nonhome_pct, exc, result>>

tables == <<RISK_LEVELS, SCORE_RATES>>

NoLocals ==
  [age |-> 0, sex |-> NoneV, gcs |-> 0, sbp |-> 0, hr |-> 0, rr |-> 0,
   height_in |-> 0, weight_lb |-> 0, bmi |-> [num |-> 0, den |-> 0],
   fracture_site |-> NoneV, mechanism |-> NoneV, transport |-> NoneV,
   insurance |-> NoneV]
NoResult == ResultOf(0, 0, 0, "", "", 0, <<>>)

\* A name bound in every frame at once, as a module-level global would be.
StoreGlobal(f, p, v) == [q \in DOMAIN f |-> v]
\* Binding a local name in the frame of invocation p.
Store(f, p, v) == [f EXCEPT ![p] = v]

OneCall == {1}
Calls == 1..MaxCalls

InitOf(P, levels, rates) ==
  /\ RISK_LEVELS \in levels
  /\ SCORE_RATES \in rates
  /\ pc = [p \in P |-> "idle"]
  /\ inputs = [p \in P |-> EmptyRecord]
  /\ locals = [p \in P |-> NoLocals]
  /\ components = [p \in P |-> <<>>]
  /\ raw_score = [p \in P |-> 0]
  /\ score = [p \in P |-> 0]
  /\ nonhome_pct = [p \in P |-> 0]
  /\ risk_label = [p \in P |-> ""]
  /\ risk_color = [p \in P |-> ""]
  /\ risk_nonhome_pct = [p \in P |-> 0]
  /\ exc = [p \in P |-> ""]
  /\ result = [p \in P |-> NoResult]

\* compute_prediction(rec) is called: a fresh frame for invocation p.
Call(p, In) ==
  /\ pc[p] = "idle"
  /\ \E rec \in In : inputs' = Store(inputs, p, rec)
  /\ pc' = [pc EXCEPT ![p] = "normalize"]
  /\ UNCHANGED <<tables, locals, components, raw_score, score, nonhome_pct,
                 risk_label, risk_color, risk_nonhome_pct, exc, result>>

\* The caller is done with the result (or the exception): the frame is gone.
Finish(p) ==
  /\ pc[p] \in {"returned", "raised"}
  /\ pc' = [pc EXCEPT ![p] = "idle"]
  /\ inputs' = [inputs EXCEPT ![p] = EmptyRecord]
  /\ locals' = [locals EXCEPT ![p] = NoLocals]
  /\ components' = [components EXCEPT ![p] = <<>>]
  /\ raw_score' = [raw_score EXCEPT ![p] = 0]
  /\ score' = [score EXCEPT ![p] = 0]
  /\ nonhome_pct' = [nonhome_pct EXCEPT ![p] = 0]
  /\ risk_label' = [risk_label EXCEPT ![p] = ""]
  /\ risk_color' = [risk_color EXCEPT ![p] = ""]
  /\ risk_nonhome_pct' = [risk_nonhome_pct EXCEPT ![p] = 0]
  /\ exc' = [exc EXCEPT ![p] = ""]
  /\ result' = [result EXCEPT ![p] = NoResult]
  /\ UNCHANGED tables

\* Lines 25-37: the locals are bound, or the first failing statement raises.
Normalize(p) ==
  /\ pc[p] = "normalize"
  /\ IF NormalizeExc(inputs[p]) # ""
     THEN /\ exc' = [exc EXCEPT ![p] = NormalizeExc(inputs[p])]
          /\ pc' = [pc EXCEPT ![p] = "raised"]
          /\ UNCHANGED locals
     ELSE /\ locals' = Store(locals, p, NormalizeRec(inputs[p]))
          /\ pc' = [pc EXCEPT ![p] = "components"]
          /\ UNCHANGED exc
  /\ UNCHANGED <<tables, inputs, components, raw_score, score, nonhome_pct,
                 risk_label, risk_color, risk_nonhome_pct, result>>

\* Lines 39-154: the component list is built from the locals.
BuildComponents(p) ==
  /\ pc[p] = "components"
  /\ components' = Store(components, p, Components(locals[p]))
  /\ pc' = [pc EXCEPT ![p] = "values"]
  /\ UNCHANGED <<tables, inputs, locals, raw_score, score, nonhome_pct,
                 risk_label, risk_color, risk_nonhome_pct, exc, result>>

\* Lines 156-157: every component gets its value.
SetValues(p) ==
  /\ pc[p] = "values"
  /\ components' = Store(components, p, WithValues(components[p]))
  /\ pc' = [pc EXCEPT ![p] = "sum"]
  /\ UNCHANGED <<tables, inputs, locals, raw_score, score, nonhome_pct,
                 risk_label, risk_color, risk_nonhome_pct, exc, result>>

\* Lines 159-160: the sum and its clamp.
SumAndClamp(p) ==
  /\ pc[p] = "sum"
  /\ raw_score' = Store(raw_score, p, SumValues(components[p]))
  /\ score' = Store(score, p, Clamp(SumValues(components[p])))
  /\ pc' = [pc EXCEPT ![p] = "rate"]
  /\ UNCHANGED <<tables, inputs, locals, components, nonhome_pct,
                 risk_label, risk_color, risk_nonhome_pct, exc, result>>

\* Line 162: the per-score rate.
LookupRate(p) ==
  /\ pc[p] = "rate"
  /\ nonhome_pct' = Store(nonhome_pct, p, RateLookup(SCORE_RATES, score[p]))
  /\ pc' = [pc EXCEPT ![p] = "bands"]
  /\ UNCHANGED <<tables, inputs, locals, components, raw_score, score,
                 risk_label, risk_color, risk_nonhome_pct, exc, result>>

\* Lines 164-172: the band of the score.
ScanBands(p) ==
  /\ pc[p] = "bands"
  /\ LET band == BandScan(RISK_LEVELS, score[p])
     IN /\ risk_label' = Store(risk_label, p, band.label)
        /\ risk_color' = Store(risk_color, p, band.color)
        /\ risk_nonhome_pct' = Store(risk_nonhome_pct, p, band.nonhome_rate)
  /\ pc' = [pc EXCEPT ![p] = "return"]
  /\ UNCHANGED <<tables, inputs, locals, components, raw_score, score,
                 nonhome_pct, exc, result>>

\* Lines 174-182: the result dict is returned.
Return(p) ==
  /\ pc[p] = "return"
  /\ result' = [result EXCEPT ![p] =
       ResultOf(score[p], raw_score[p], nonhome_pct[p], risk_label[p],
                risk_color[p], risk_nonhome_pct[p], components[p])]
  /\ pc' = [pc EXCEPT ![p] = "returned"]
  /\ UNCHANGED <<tables, inputs, locals, components, raw_score, score,
                 nonhome_pct, risk_label, risk_color, risk_nonhome_pct, exc>>

NextOf(P, In) ==
  \E p \in P :
    \/ Call(p, In)
    \/ Normalize(p)
    \/ BuildComponents(p)
    \/ SetValues(p)
    \/ SumAndClamp(p)
    \/ LookupRate(p)
    \/ ScanBands(p)
    \/ Return(p)
    \/ Finish(p)

\* One invocation after another, over every input record.
Init == InitOf(OneCall, {ConfigRiskLevels}, {ConfigScoreRates})
Next == NextOf(OneCall, Inputs)
Spec == Init /\ [][Next]_vars

\* Several invocations in progress at once, their statements interleaved.
InitPar == InitOf(Calls, {ConfigRiskLevels}, {ConfigScoreRates})
NextPar == NextOf(Calls, FewInputs)
SpecPar == InitPar /\ [][NextPar]_vars

\* One invocation after another over config.py as an edit could leave it.
InitTables == InitOf(OneCall, LevelVariants, RateVariants)
NextTables == NextOf(OneCall, FewInputs)
SpecTables == InitTables /\ [][NextTables]_vars

Procs == DOMAIN pc
Returned(p) == pc[p] = "returned"
Finished(p) == pc[p] \in {"returned", "raised"}
B2N(b) == IF b THEN 1 ELSE 0

\* ------------------------------------------------------------ claims

\* C1: every returned score is the returned raw_score clamped to 0..10 (0 below
\* 0, 10 above 10, raw_score itself otherwise), and the returned raw_score is
\* the unclamped sum of the component values.
C1_ScoreIsClampedRawScore ==
  \A p \in Procs : Returned(p) =>
    LET r == result[p]
    IN /\ 0 <= r.score /\ r.score <= 10
       /\ (r.raw_score < 0 => r.score = 0)
       /\ (r.raw_score > 10 => r.score = 10)
       /\ (0 <= r.raw_score /\ r.raw_score <= 10 => r.score = r.raw_score)
       /\ r.raw_score = SumUpTo(r.components, Len(r.components))

\* A result whose raw_score is above 10 and whose score is 10.
C1_Witness ==
  \E p \in Procs : Returned(p) /\ result[p].raw_score > 10 /\ result[p].score = 10

\* The sum of the signed points of the 19 catalog rules that hold on the
\* normalized record l, written rule by rule.
CatalogSum(l) ==
    6 * B2N(l.gcs <= 8)
  + 5 * B2N(l.fracture_site = Str("Hip/Femur") \/ l.fracture_site = Str("Both"))
  + 5 * B2N(l.rr < 12)
  + 4 * B2N(l.insurance = Str("Medicare"))
  + 4 * B2N(l.sbp < 90)
  + 4 * B2N(l.insurance = Str("Other"))
  + 3 * B2N(l.age >= 75)
  + 3 * B2N(l.fracture_site = Str("Axial (Spine/Rib/Pelvis)") \/ l.fracture_site = Str("Both"))
  + 3 * B2N(l.insurance = Str("Private"))
  + 3 * B2N(l.insurance = Str("Charity"))
  + 3 * B2N(9 <= l.gcs /\ l.gcs <= 12)
  + 2 * B2N(l.bmi.num >= 40 * l.bmi.den)
  + 1 * B2N(65 <= l.age /\ l.age <= 74)
  + 1 * B2N(l.sex = Str("Female"))
  + 1 * B2N(l.rr > 20)
  + 1 * B2N(l.hr >= 100)
  - 2 * B2N(l.transport = Str("Private Vehicle"))
  - 3 * B2N(l.mechanism = Str("Assault"))
  - 4 * B2N(l.transport = Str("Walk-in"))

\* The list with its elements i and i+1 exchanged: these exchanges generate
\* every permutation.
SwapAdjacent(seq, i) ==
  [j \in DOMAIN seq |-> IF j = i THEN seq[i + 1] ELSE IF j = i + 1 THEN seq[i] ELSE seq[j]]
Reversed(seq) == [j \in DOMAIN seq |-> seq[Len(seq) + 1 - j]]

\* C2: the returned raw_score is the exact sum of the signed points of the
\* catalog rules whose condition holds on the normalized record, and summing
\* the components in another order gives the same raw_score.
C2_RawScoreIsRuleSum ==
  \A p \in Procs : Returned(p) =>
    LET r == result[p]
    IN /\ Len(r.components) = 19
       /\ r.raw_score = CatalogSum(locals[p])
       /\ \A i \in 1..(Len(r.components) - 1) :
            SumValues(SwapAdjacent(r.components, i)) = r.raw_score
       /\ SumValues(Reversed(r.components)) = r.raw_score

\* A result in which a rule with positive points and one with negative points
\* are both met.
C2_Witness ==
  \E p \in Procs : Returned(p) /\
    \E i, j \in DOMAIN result[p].components :
      result[p].components[i].value > 0 /\ result[p].components[j].value < 0

\* C3 (as claimed): when the input record carries a number as bmi, the
\* "BMI >= 40" rule is met exactly when that number is at least 40.
C3_SuppliedBmiDecidesRule ==
  \A p \in Procs :
    (Returned(p) /\ "bmi" \in DOMAIN inputs[p] /\ inputs[p]["bmi"].kind = "num") =>
      (result[p].components[12].met <=> inputs[p]["bmi"].num >= 40)

\* C4 (as claimed): no invocation ends by raising an error.
C4_NeverRaises == \A p \in Procs : pc[p] # "raised"

\* C5 (as claimed): a result is returned only when the rate table has an entry
\* for the clamped score and some band satisfies score <= max_score.
C5_NoResultOnTableMiss ==
  \A p \in Procs : Returned(p) =>
    /\ result[p].score \in DOMAIN SCORE_RATES
    /\ \E i \in DOMAIN RISK_LEVELS : result[p].score <= RISK_LEVELS[i].max_score

\* The input record without the key f.
Without(rec, f) == [k \in (DOMAIN rec) \ {f} |-> rec[k]]
\* The catalog rules that read field f.
RulesOf(f) ==
  CASE f = "sex" -> {14}
    [] f = "fracture_site" -> {2, 8}
    [] f = "mechanism" -> {18}
    [] f = "transport" -> {17, 19}
    [] f = "insurance" -> {4, 6, 9, 10}
OutsideEnum(rec, f) ==
  f \in DOMAIN rec /\ rec[f] \notin {Str(o) : o \in Options(f)}

\* C6: when a categorical field holds a value outside its declared options
\* (and no other field makes the call fail), the call raises nothing, every
\* rule reading that field is not met, and score, raw_score and the met flags
\* are those of the same record without that field.
C6_UnknownCategoryAsAbsent ==
  \A p \in Procs : \A f \in CategoricalFields :
    (Finished(p) /\ OutsideEnum(inputs[p], f)
       /\ NormalizeExc(Without(inputs[p], f)) = "") =>
      LET r == result[p]
          a == ComputePrediction(Without(inputs[p], f), RISK_LEVELS, SCORE_RATES)
      IN /\ Returned(p)
         /\ \A i \in RulesOf(f) : ~r.components[i].met
         /\ r.score = a.score
         /\ r.raw_score = a.raw_score
         /\ \A i \in DOMAIN a.components : r.components[i].met = a.components[i].met

\* A result for a record whose insurance is outside the declared options
\* while other rules are met.
C6_Witness ==
  \E p \in Procs :
    Returned(p) /\ OutsideEnum(inputs[p], "insurance") /\ result[p].raw_score > 0

\* The band of a score as the claim lists them.
ListedBand(s) ==
  CASE s \in 0..1 -> [label |-> "Low", color |-> "green", nonhome_rate |-> 12]
    [] s \in 2..3 -> [label |-> "Low-Moderate", color |-> "orange", nonhome_rate |-> 31]
    [] s \in 4..6 -> [label |-> "Moderate-High", color |-> "orange", nonhome_rate |-> 70]
    [] s \in 7..10 -> [label |-> "High", color |-> "red", nonhome_rate |-> 264]
\* The range of band i: from the previous band's max_score + 1 (0 for the
\* first band) to its own max_score.
BandRange(levels, i) ==
  (IF i = 1 THEN 0 ELSE levels[i - 1].max_score + 1)..levels[i].max_score

\* C7: every score 0..10 lies in the range of exactly one band of RISK_LEVELS,
\* the first-match scan selects that band, and every returned result carries
\* the label, color and rate the claim lists for its score.
C7_BandSelectionTotalExclusive ==
  /\ \A s \in 0..10 :
       /\ Cardinality({i \in DOMAIN RISK_LEVELS : s \in BandRange(RISK_LEVELS, i)}) = 1
       /\ \A i \in DOMAIN RISK_LEVELS :
            s \in BandRange(RISK_LEVELS, i) =>
              BandScan(RISK_LEVELS, s) =
                [label |-> RISK_LEVELS[i].label, color |-> RISK_LEVELS[i].color,
                 nonhome_rate |-> RISK_LEVELS[i].nonhome_rate]
  /\ \A p \in Procs : Returned(p) =>
       LET r == result[p]
       IN [label |-> r.risk_label, color |-> r.risk_color,
           nonhome_rate |-> r.risk_nonhome_pct] = ListedBand(r.score)

\* A result at the upper end of a band: score 6, Moderate-High.
C7_Witness ==
  \E p \in Procs :
    Returned(p) /\ result[p].score = 6 /\ result[p].risk_label = "Moderate-High"

\* C8 (as claimed): of two results, the one with the higher score has neither
\* a lower nonhome_pct nor a lower risk_nonhome_pct.
C8_RatesMonotone ==
  \A p, q \in Procs :
    (Returned(p) /\ Returned(q) /\ result[p].score < result[q].score) =>
      /\ result[p].nonhome_pct <= result[q].nonhome_pct
      /\ result[p].risk_nonhome_pct <= result[q].risk_nonhome_pct

\* Each finished invocation's outcome is the function of its own input
\* record, and two finished invocations of the same record agree.
OutcomeOfOwnInput ==
  \A p \in Procs : Finished(p) =>
    /\ exc[p] = NormalizeExc(inputs[p])
    /\ Returned(p) <=> NormalizeExc(inputs[p]) = ""
    /\ Returned(p) =>
         result[p] = ComputePrediction(inputs[p], ConfigRiskLevels, ConfigScoreRates)
    /\ \A q \in Procs :
         (Finished(q) /\ inputs[q] = inputs[p]) =>
           pc[q] = pc[p] /\ exc[q] = exc[p] /\ result[q] = result[p]

\* No step changes a table, nor the input record of an invocation in progress.
NothingModified ==
  /\ RISK_LEVELS' = RISK_LEVELS
  /\ SCORE_RATES' = SCORE_RATES
  /\ \A p \in Procs : (pc[p] # "idle" /\ pc'[p] # "idle") => inputs'[p] = inputs[p]

\* C9: in every interleaving, each invocation's outcome depends only on its own
\* input record, two invocations of the same record return identical results,
\* and no step modifies RISK_LEVELS, SCORE_RATES or an input record.
C9_DeterministicStateless == [](OutcomeOfOwnInput) /\ [][NothingModified]_vars

\* Two invocations of the same record, both returned, with a rule met.
C9_Witness ==
  \E p, q \in Procs :
    p # q /\ Returned(p) /\ Returned(q) /\ inputs[p] = inputs[q]
      /\ result[p].raw_score # 0

MetCount(comps, S) == Cardinality({i \in S : comps[i].met})

\* C10: rules reading the same field with disjoint conditions are never met
\* together (the two GCS rules, the two age rules, the two respiratory rate
\* rules, the four insurance rules, the two transport rules), and raw_score
\* lies in -7..34.
C10_DisjointRulesAndRange ==
  \A p \in Procs : Returned(p) =>
    LET c == result[p].components
    IN /\ MetCount(c, {1, 11}) <= 1
       /\ MetCount(c, {7, 13}) <= 1
       /\ MetCount(c, {3, 15}) <= 1
       /\ MetCount(c, {4, 6, 9, 10}) <= 1
       /\ MetCount(c, {17, 19}) <= 1
       /\ -7 <= result[p].raw_score /\ result[p].raw_score <= 34

\* A result at the upper end of the range: raw_score 34.
C10_Witness == \E p \in Procs : Returned(p) /\ result[p].raw_score = 34
=============================================================================
